---- MODULE Spec2Model ----
(***************************************************************************)
(* Borrow / return lifecycle of the mediatheque backend (src/server.js).   *)
(*                                                                         *)
(* The three MongoDB collections "documents", "utilisateurs" and           *)
(* "emprunts" are the shared state.  Every HTTP handler is an async        *)
(* function: between two awaits it runs without interruption, and each     *)
(* awaited driver call is applied atomically by the database.  A handler   *)
(* is therefore a sequence of steps, one per awaited database call; a step *)
(* applies the call and runs the handler up to its next await (or up to    *)
(* the response).  Steps of different requests interleave freely.          *)
(***************************************************************************)
EXTENDS Integers, Sequences, FiniteSets, TLC

\* ------------------------------------------------------------------ bounds
\* Cap on the number of loan records the requests create (records are never
\* deleted, so the "emprunts" collection would grow without bound).
MaxEmprunts == 2
\* Last instant of the logical clock read by `new Date()`.
MaxTime == 1
\* Cap on the number of store calls that are rejected.
MaxPannes == 2

\* Cap on the number of accounts the register requests create.
MaxInscrits == 2

\* ------------------------------------------------------- program constants
\* JavaScript null (fields emprunte_par, date_emprunt, date_retour_reel), kept
\* apart from every date and counter value.
null == -1
\* limite_emprunts of the test account / of a registered account.
LimiteUser == 3
\* limite_emprunts of the administrator account.
LimiteAdmin == 999
\* dateRetour.setDate(dateRetour.getDate() + 30)
LoanDays == 30
\* if (password.length < 3)
MinPassword == 3

\* Accounts inserted by initializeDefaultData.
Users == {"admin", "user"}
\* A session user id that matches no record of "utilisateurs".
NoUser == "inconnu"
UserIds == Users \cup {NoUser}

\* Documents of the collection, all created by POST /api/admin/documents.
\* The requests name the documents of Cibles; those of DejaEmpruntes are the
\* documents the test account may have borrowed before the first request.
Cibles == {"d1", "d2"}
DejaEmpruntes == {"d3", "d4"}
Docs == Cibles \cup DejaEmpruntes
\* A well-formed ObjectId that matches no record of "documents".
NoDoc == "d0"
DocIds == Cibles \cup {NoDoc}

\* Requests that can be in flight together.
Reqs == {"r1", "r2"}

VARIABLES
  documents,     \* collection "documents":   id -> record
  utilisateurs,  \* collection "utilisateurs": id -> record
  emprunts,      \* collection "emprunts": sequence of records, _id = index
  now,           \* the clock read by new Date()
  req,           \* per request: route, parameters, position, locals, response
  avant,         \* the three collections as they were when a request that
                 \* runs alone was received
  pannes,        \* number of store calls rejected so far
  conn           \* src/db.js: the module's client and db, and its callers

vars == <<documents, utilisateurs, emprunts, now, req, avant, pannes, conn>>

\* What the handlers of the ledger never write.
hors == <<pannes, conn>>

\* src/db.js as loaded: let client = null; let db = null; no call in progress,
\* and a database that has no collection yet.  ping records that connect and
\* ping have succeeded since the client was last closed; noms is the
\* collectionNames local of ensureCollectionExists.
ConnInit ==
  [ client |-> "null", db |-> "null", ping |-> FALSE,
    collections |-> {}, echantillons |-> FALSE, noms |-> {},
    op |-> "none", pc |-> "idle", ret |-> "none" ]

\* ------------------------------------------------------------ initial data
\* const document = { ... } of POST /api/admin/documents.
NewDocument ==
  [ disponible |-> TRUE, FIELD9 |-> "disponible", reservations |-> 0,
    emprunte_par |-> null, date_emprunt |-> null ]

\* The two insertOne calls of initializeDefaultData.
DefaultUsers ==
  [ u \in Users |->
      IF u = "admin"
        THEN [ email |-> "admin@mediatheque.fr", role |-> "admin",
               limite_emprunts |-> LimiteAdmin, emprunts_actuels |-> 0 ]
        ELSE [ email |-> "user@test.fr", role |-> "user",
               limite_emprunts |-> LimiteUser, emprunts_actuels |-> 0 ] ]

\* A request slot with no request in it.
Idle ==
  [ pc |-> "idle", route |-> "none", id |-> NoDoc, userId |-> NoUser,
    email |-> "none", dateRetour |-> null, date |-> null, emprunt |-> 0,
    status |-> 0, success |-> FALSE, error |-> "none", limite |-> null,
    panne |-> "none",
    total |-> 0, disponibles |-> 0, empruntes |-> 0, totalReservations |-> 0,
    newValue |-> "none", suite |-> FALSE, titre |-> FALSE, auteur |-> FALSE,
    totalDocuments |-> 0, documentsDisponibles |-> 0, totalUtilisateurs |-> 0,
    empruntsEnCours |-> 0, aujourdhui |-> null, empruntsRetard |-> 0,
    nom |-> FALSE, password |-> 0 ]

Snapshot ==
  [ documents |-> documents, utilisateurs |-> utilisateurs, emprunts |-> emprunts ]

\* An empty ledger: every document as created, no loan record.
Init ==
  /\ documents = [ d \in Docs |-> NewDocument ]
  /\ utilisateurs = DefaultUsers
  /\ emprunts = << >>
  /\ now = 0
  /\ req = [ r \in Reqs |-> Idle ]
  /\ avant = Snapshot
  /\ pannes = 0
  /\ conn = ConnInit

\* The record written by the handler's insertOne.
NewEmprunt(d, u, email, date, dateRetour) ==
  [ document_id |-> d, utilisateur_id |-> u, utilisateur_email |-> email,
    date_emprunt |-> date, date_retour_prevu |-> dateRetour,
    date_retour_reel |-> null, statut |-> "emprunté" ]

\* The ledger after the test account has borrowed d3 and then d4, one request
\* after the other, at instant 0.
InitEnCours ==
  /\ documents = [ d \in Docs |->
        IF d \in DejaEmpruntes
          THEN [ NewDocument EXCEPT !.FIELD9 = "emprunté", !.disponible = FALSE,
                                    !.emprunte_par = DefaultUsers["user"].email,
                                    !.date_emprunt = 0, !.reservations = 1 ]
          ELSE NewDocument ]
  /\ utilisateurs = [ DefaultUsers EXCEPT !["user"].emprunts_actuels = 2 ]
  /\ emprunts = << NewEmprunt("d3", "user", DefaultUsers["user"].email, 0, LoanDays),
                   NewEmprunt("d4", "user", DefaultUsers["user"].email, 0, LoanDays) >>
  /\ now = 0
  /\ req = [ r \in Reqs |-> Idle ]
  /\ avant = Snapshot
  /\ pannes = 0
  /\ conn = ConnInit

\* ---------------------------------------------------------------- responses
\* res.status(s).json({ success: false, error: e })
Fail(r, s, e, l) ==
  [ req EXCEPT ![r].pc = "done", ![r].status = s, ![r].success = FALSE,
               ![r].error = e, ![r].limite = l ]

\* res.json({ success: true, ... })
Ok(r) ==
  [ req EXCEPT ![r].pc = "done", ![r].status = 200, ![r].success = TRUE ]

\* ------------------------------------------------------------ driver calls
\* collection("documents").updateOne({ _id: d }, { $set: set, $inc: { reservations: inc } }):
\* the fields of set replace those of the record; no match, no change.
UpdateDocument(d, set, inc) ==
  IF d \in DOMAIN documents
    THEN LET doc == documents[d] IN
         [ documents EXCEPT ![d] =
             [ k \in DOMAIN doc |->
                 IF k \in DOMAIN set THEN set[k]
                 ELSE IF k = "reservations" THEN doc[k] + inc
                 ELSE doc[k] ] ]
    ELSE documents

\* collection("utilisateurs").updateOne({ _id: u }, { $inc: { emprunts_actuels: n } })
IncEmpruntsActuels(u, n) ==
  IF u \in DOMAIN utilisateurs
    THEN [ utilisateurs EXCEPT ![u].emprunts_actuels = @ + n ]
    ELSE utilisateurs

\* The same query without its statut filter.
EmpruntsSansStatut(d, u) ==
  { i \in DOMAIN emprunts : /\ emprunts[i].document_id = d
                            /\ emprunts[i].utilisateur_id = u }

\* Records matched by findOne({ document_id, utilisateur_id, statut: 'emprunté' }).
EmpruntsActifs(d, u) ==
  { i \in DOMAIN emprunts : /\ emprunts[i].document_id = d
                            /\ emprunts[i].utilisateur_id = u
                            /\ emprunts[i].statut = "emprunté" }

\* ------------------------------------------------------ request reception
\* Borrow requests received or running that have not inserted their loan yet.
BorrowsPending ==
  { r \in Reqs : /\ req[r].route = "emprunter"
                 /\ req[r].pc \in {"findUser", "findDocument", "updateDocument", "insertEmprunt"} }

\* Loan records created by the requests.
Created == { i \in DOMAIN emprunts : emprunts[i].document_id \in Cibles }

Receive(r, route, d, u) ==
  /\ req[r].pc = "idle"
  /\ route = "emprunter" => Cardinality(Created) + Cardinality(BorrowsPending) < MaxEmprunts
  /\ req' = [ req EXCEPT ![r] =
                [ Idle EXCEPT !.pc = IF route = "emprunter" THEN "findUser" ELSE "findEmprunt",
                              !.route = route, !.id = d, !.userId = u ] ]

\* A request arrives while others may be running.
Start(r) ==
  /\ \E route \in {"emprunter", "retourner"}, d \in DocIds, u \in UserIds :
       Receive(r, route, d, u)
  /\ UNCHANGED <<hors, documents, utilisateurs, emprunts, now, avant>>

\* A request arrives while no other request is running or awaiting collection.
StartAlone(r) ==
  /\ \A o \in Reqs : req[o].pc = "idle"
  /\ \E route \in {"emprunter", "retourner"}, d \in DocIds, u \in UserIds :
       Receive(r, route, d, u)
  /\ avant' = Snapshot
  /\ UNCHANGED <<hors, documents, utilisateurs, emprunts, now>>

\* The response has been delivered; the slot is free again.
Finish(r) ==
  /\ req[r].pc = "done"
  /\ req' = [ req EXCEPT ![r] = Idle ]
  /\ UNCHANGED <<hors, documents, utilisateurs, emprunts, now, avant>>

\* ------------------------------------- POST /api/documents/:id/emprunter
\* The same step with the limit compared by > instead of >=.
BorFindUserStrict(r) ==
  /\ req[r].route = "emprunter" /\ req[r].pc = "findUser"
  /\ LET u == req[r].userId IN
       IF u \notin DOMAIN utilisateurs
         THEN req' = Fail(r, 404, "Utilisateur non trouvé", null)
       ELSE IF utilisateurs[u].emprunts_actuels > utilisateurs[u].limite_emprunts
         THEN req' = Fail(r, 400, "Limite d'emprunts atteinte", utilisateurs[u].limite_emprunts)
       ELSE req' = [ req EXCEPT ![r].pc = "findDocument", ![r].email = utilisateurs[u].email ]
  /\ UNCHANGED <<hors, documents, utilisateurs, emprunts, now, avant>>

\* findOne({ _id: userId }), then the two checks on the record read.
BorFindUser(r) ==
  /\ req[r].route = "emprunter" /\ req[r].pc = "findUser"
  /\ LET u == req[r].userId IN
       IF u \notin DOMAIN utilisateurs
         THEN req' = Fail(r, 404, "Utilisateur non trouvé", null)
       ELSE IF utilisateurs[u].emprunts_actuels >= utilisateurs[u].limite_emprunts
         THEN req' = Fail(r, 400, "Limite d'emprunts atteinte", utilisateurs[u].limite_emprunts)
       ELSE req' = [ req EXCEPT ![r].pc = "findDocument", ![r].email = utilisateurs[u].email ]
  /\ UNCHANGED <<hors, documents, utilisateurs, emprunts, now, avant>>

\* findOne({ _id: documentId, FIELD9: "disponible" }); on a match the handler
\* computes dateRetour and the date_emprunt of the document update.
BorFindDocument(r) ==
  /\ req[r].route = "emprunter" /\ req[r].pc = "findDocument"
  /\ LET d == req[r].id IN
       IF d \in DOMAIN documents /\ documents[d].FIELD9 = "disponible"
         THEN req' = [ req EXCEPT ![r].pc = "updateDocument",
                                  ![r].dateRetour = now + LoanDays, ![r].date = now ]
         ELSE req' = Fail(r, 400, "Document non disponible", null)
  /\ UNCHANGED <<hors, documents, utilisateurs, emprunts, now, avant>>

\* The same step without its $inc of reservations.
BorUpdateDocumentSansInc(r) ==
  /\ req[r].route = "emprunter" /\ req[r].pc = "updateDocument"
  /\ documents' = UpdateDocument(req[r].id,
       [ FIELD9 |-> "emprunté", disponible |-> FALSE,
         emprunte_par |-> req[r].email, date_emprunt |-> req[r].date ], 0)
  /\ req' = [ req EXCEPT ![r].pc = "insertEmprunt", ![r].date = now ]
  /\ UNCHANGED <<hors, utilisateurs, emprunts, now, avant>>

\* updateOne({ _id: documentId }, { $set: {...}, $inc: { reservations: 1 } });
\* then the handler evaluates the date_emprunt of the loan record.
BorUpdateDocument(r) ==
  /\ req[r].route = "emprunter" /\ req[r].pc = "updateDocument"
  /\ documents' = UpdateDocument(req[r].id,
       [ FIELD9 |-> "emprunté", disponible |-> FALSE,
         emprunte_par |-> req[r].email, date_emprunt |-> req[r].date ], 1)
  /\ req' = [ req EXCEPT ![r].pc = "insertEmprunt", ![r].date = now ]
  /\ UNCHANGED <<hors, utilisateurs, emprunts, now, avant>>

\* collection("emprunts").insertOne({...})
BorInsertEmprunt(r) ==
  /\ req[r].route = "emprunter" /\ req[r].pc = "insertEmprunt"
  /\ emprunts' = Append(emprunts,
       NewEmprunt(req[r].id, req[r].userId, req[r].email, req[r].date, req[r].dateRetour))
  /\ req' = [ req EXCEPT ![r].pc = "incUser" ]
  /\ UNCHANGED <<hors, documents, utilisateurs, now, avant>>

\* updateOne({ _id: userId }, { $inc: { emprunts_actuels: 1 } }), then res.json.
BorIncUser(r) ==
  /\ req[r].route = "emprunter" /\ req[r].pc = "incUser"
  /\ utilisateurs' = IncEmpruntsActuels(req[r].userId, 1)
  /\ req' = Ok(r)
  /\ UNCHANGED <<hors, documents, emprunts, now, avant>>

\* ------------------------------------- POST /api/documents/:id/retourner
\* findOne({ document_id, utilisateur_id, statut: 'emprunté' }): any record
\* that matches may be the one returned.
RetFindEmprunt(r) ==
  /\ req[r].route = "retourner" /\ req[r].pc = "findEmprunt"
  /\ LET found == EmpruntsActifs(req[r].id, req[r].userId) IN
       IF found = {}
         THEN req' = Fail(r, 400, "Vous n'avez pas emprunté ce document", null)
         ELSE \E i \in found :
                req' = [ req EXCEPT ![r].pc = "updateDocument", ![r].emprunt = i ]
  /\ UNCHANGED <<hors, documents, utilisateurs, emprunts, now, avant>>

\* The same step with reservations taken back on return.
RetUpdateDocumentDec(r) ==
  /\ req[r].route = "retourner" /\ req[r].pc = "updateDocument"
  /\ documents' = UpdateDocument(req[r].id,
       [ FIELD9 |-> "disponible", disponible |-> TRUE,
         emprunte_par |-> null, date_emprunt |-> null ], -1)
  /\ req' = [ req EXCEPT ![r].pc = "updateEmprunt", ![r].date = now ]
  /\ UNCHANGED <<hors, utilisateurs, emprunts, now, avant>>

\* updateOne({ _id: documentId }, { $set: { FIELD9: "disponible", ... } });
\* then the handler evaluates date_retour_reel.
RetUpdateDocument(r) ==
  /\ req[r].route = "retourner" /\ req[r].pc = "updateDocument"
  /\ documents' = UpdateDocument(req[r].id,
       [ FIELD9 |-> "disponible", disponible |-> TRUE,
         emprunte_par |-> null, date_emprunt |-> null ], 0)
  /\ req' = [ req EXCEPT ![r].pc = "updateEmprunt", ![r].date = now ]
  /\ UNCHANGED <<hors, utilisateurs, emprunts, now, avant>>

\* updateOne({ _id: emprunt._id }, { $set: { date_retour_reel, statut: 'retourné' } })
RetUpdateEmprunt(r) ==
  /\ req[r].route = "retourner" /\ req[r].pc = "updateEmprunt"
  /\ emprunts' = [ emprunts EXCEPT ![req[r].emprunt].date_retour_reel = req[r].date,
                                   ![req[r].emprunt].statut = "retourné" ]
  /\ req' = [ req EXCEPT ![r].pc = "incUser" ]
  /\ UNCHANGED <<hors, documents, utilisateurs, now, avant>>

\* updateOne({ _id: userId }, { $inc: { emprunts_actuels: -1 } }), then res.json.
RetIncUser(r) ==
  /\ req[r].route = "retourner" /\ req[r].pc = "incUser"
  /\ utilisateurs' = IncEmpruntsActuels(req[r].userId, -1)
  /\ req' = Ok(r)
  /\ UNCHANGED <<hors, documents, emprunts, now, avant>>

\* --------------------------------------------------------------- the clock
Tick ==
  /\ now < MaxTime
  /\ now' = now + 1
  /\ UNCHANGED <<hors, documents, utilisateurs, emprunts, req, avant>>

\* ---------------------------------------------------------- specifications
Step(r) ==
  \/ BorFindUser(r)
  \/ BorFindDocument(r)
  \/ BorUpdateDocument(r)
  \/ BorInsertEmprunt(r)
  \/ BorIncUser(r)
  \/ RetFindEmprunt(r)
  \/ RetUpdateDocument(r)
  \/ RetUpdateEmprunt(r)
  \/ RetIncUser(r)
  \/ Finish(r)

\* Requests interleave at every await; they all run within one clock instant.
Next ==
  \/ \E r \in Reqs : Start(r)
  \/ \E r \in Reqs : Step(r)

\* Interleaved requests on an empty ledger.
Spec == Init /\ [][Next]_vars

\* Interleaved requests on a ledger where the test account already holds loans.
SpecEnCours == InitEnCours /\ [][Next]_vars

\* Interleaved requests while the clock advances.
NextTime ==
  \/ \E r \in Reqs : Start(r)
  \/ \E r \in Reqs : Step(r)
  \/ Tick

SpecTime == Init /\ [][NextTime]_vars

\* Requests served one after the other while the clock advances.
NextSeq ==
  \/ \E r \in Reqs : StartAlone(r)
  \/ \E r \in Reqs : Step(r)
  \/ Tick

SpecSeq == (Init \/ InitEnCours) /\ [][NextSeq]_vars

\* ------------------------------------------------------------- properties
\* Active loans of a document, of a user.
Actifs(d) ==
  { i \in DOMAIN emprunts : emprunts[i].document_id = d /\ emprunts[i].statut = "emprunté" }

ActifsDe(u) ==
  { i \in DOMAIN emprunts : emprunts[i].utilisateur_id = u /\ emprunts[i].statut = "emprunté" }

\* A request has applied its first write and not yet its third.
EnCoursEcriture(r) == req[r].pc \in {"insertEmprunt", "updateEmprunt", "incUser"}

Quiescent == \A r \in Reqs : ~EnCoursEcriture(r)

\* Only Borrow requests have acted on document d: none of its loans was
\* returned and no Return request names it.
SeulementEmprunts(d) ==
  /\ \A i \in DOMAIN emprunts : emprunts[i].document_id = d => emprunts[i].statut = "emprunté"
  /\ \A r \in Reqs : ~(req[r].route = "retourner" /\ req[r].id = d)

\* Borrow requests on d that have answered success and hold their slot.
Reussis(d) ==
  { r \in Reqs : /\ req[r].pc = "done" /\ req[r].route = "emprunter"
                 /\ req[r].id = d /\ req[r].success }

\* C1: whatever the interleaving of the Borrow requests on an available
\* document, at most one of them answers success and at most one Active loan
\* of the document exists.
C1_UnSeulEmprunt ==
  \A d \in Cibles :
    SeulementEmprunts(d) =>
      /\ Cardinality(Actifs(d)) <= 1
      /\ Cardinality(Reussis(d)) <= 1

\* C2 (I3): in every reachable state every user's emprunts_actuels is at most
\* the user's limite_emprunts.  Stated for the states in which no document
\* has two Active loans, which leaves the Borrow requests of one user on
\* different available documents.
C2_LimiteRespectee ==
  (\A d \in DOMAIN documents : Cardinality(Actifs(d)) <= 1) =>
    \A u \in DOMAIN utilisateurs :
      utilisateurs[u].emprunts_actuels <= utilisateurs[u].limite_emprunts

\* C3 (I1): when no request is part-way through its writes, a document is
\* marked "emprunté" iff exactly one Active loan names it.
C3_I1 ==
  Quiescent =>
    \A d \in DOMAIN documents :
      (documents[d].FIELD9 = "emprunté") <=> (Cardinality(Actifs(d)) = 1)

\* C4 (I2): when no request is part-way through its writes, each user's
\* emprunts_actuels is the number of the user's Active loans.
C4_I2 ==
  Quiescent =>
    \A u \in DOMAIN utilisateurs :
      utilisateurs[u].emprunts_actuels = Cardinality(ActifsDe(u))

\* C5 (I4): a loan never leaves 'retourné', date_retour_reel is null while
\* the loan is Active, and a step changes date_retour_reel only when it takes
\* the loan from 'emprunté' to 'retourné'.
C5_I4 ==
  [][ \A i \in DOMAIN emprunts :
        /\ emprunts[i].statut = "retourné" => emprunts'[i].statut = "retourné"
        /\ emprunts[i].statut = "emprunté" => emprunts[i].date_retour_reel = null
        /\ emprunts'[i].date_retour_reel # emprunts[i].date_retour_reel =>
             emprunts[i].statut = "emprunté" /\ emprunts'[i].statut = "retourné" ]_vars

\* C6: starting from counters at 0 and no loan, emprunts_actuels never goes
\* below 0.
C6_NonNegatif ==
  \A u \in DOMAIN utilisateurs : utilisateurs[u].emprunts_actuels >= 0

\* Active loans of (d, u) when the request that runs alone was received.
AvantActifs(d, u) ==
  { i \in DOMAIN avant.emprunts : /\ avant.emprunts[i].document_id = d
                                  /\ avant.emprunts[i].utilisateur_id = u
                                  /\ avant.emprunts[i].statut = "emprunté" }

\* C7: a Return received when no Active loan of (d, u) exists changes no
\* record at any of its steps and answers 400, success false, NoActiveLoan.
C7_RetourSansEmprunt ==
  \A r \in Reqs :
    ( /\ req[r].route = "retourner"
      /\ AvantActifs(req[r].id, req[r].userId) = {} ) =>
        /\ Snapshot = avant
        /\ req[r].pc = "done" =>
             /\ req[r].status = 400
             /\ ~req[r].success
             /\ req[r].error = "Vous n'avez pas emprunté ce document"

\* A second Return by a user whose loan of d is already 'retourné', while d
\* is borrowed by someone else, has been answered.
C7_Witness ==
  \E r \in Reqs :
    /\ req[r].pc = "done" /\ req[r].route = "retourner" /\ req[r].status = 400
    /\ \E i \in DOMAIN avant.emprunts :
         /\ avant.emprunts[i].document_id = req[r].id
         /\ avant.emprunts[i].utilisateur_id = req[r].userId
         /\ avant.emprunts[i].statut = "retourné"
    /\ \E i \in DOMAIN avant.emprunts :
         /\ avant.emprunts[i].document_id = req[r].id
         /\ avant.emprunts[i].utilisateur_id # req[r].userId
         /\ avant.emprunts[i].statut = "emprunté"
    /\ avant.documents[req[r].id].FIELD9 = "emprunté"

\* The response a failed request carries.
Echec(r, s, e) == req[r].status = s /\ ~req[r].success /\ req[r].error = e

\* C8: Borrow reports the first failing precondition, in the order user
\* exists, counter below the limit, document exists and is available.
C8_OrdreDesControles ==
  \A r \in Reqs :
    (req[r].pc = "done" /\ req[r].route = "emprunter") =>
      LET u == req[r].userId
          d == req[r].id
      IN  IF u \notin DOMAIN avant.utilisateurs
            THEN Echec(r, 404, "Utilisateur non trouvé")
          ELSE IF avant.utilisateurs[u].emprunts_actuels >= avant.utilisateurs[u].limite_emprunts
            THEN /\ Echec(r, 400, "Limite d'emprunts atteinte")
                 /\ req[r].limite = avant.utilisateurs[u].limite_emprunts
          ELSE IF d \notin DOMAIN avant.documents \/ avant.documents[d].FIELD9 # "disponible"
            THEN Echec(r, 400, "Document non disponible")
          ELSE TRUE

\* A Borrow of an available document by a user at the limit has been answered.
C8_Witness ==
  \E r \in Reqs :
    /\ req[r].pc = "done" /\ req[r].route = "emprunter"
    /\ req[r].userId \in DOMAIN avant.utilisateurs
    /\ avant.utilisateurs[req[r].userId].emprunts_actuels
         >= avant.utilisateurs[req[r].userId].limite_emprunts
    /\ req[r].id \in DOMAIN avant.documents
    /\ avant.documents[req[r].id].FIELD9 = "disponible"
    /\ req[r].error = "Limite d'emprunts atteinte"

\* C9: a Borrow that ran alone and answered success has marked d borrowed by
\* u, raised reservations and emprunts_actuels by one, added one Active loan
\* of (d, u), and changed nothing else.
C9_EffetsEmprunt ==
  \A r \in Reqs :
    (req[r].pc = "done" /\ req[r].route = "emprunter" /\ req[r].success) =>
      LET u == req[r].userId
          d == req[r].id
          n == Len(avant.emprunts)
      IN  /\ u \in DOMAIN avant.utilisateurs /\ d \in DOMAIN avant.documents
          /\ DOMAIN documents = DOMAIN avant.documents
          /\ documents[d].FIELD9 = "emprunté"
          /\ documents[d].emprunte_par = avant.utilisateurs[u].email
          /\ documents[d].reservations = avant.documents[d].reservations + 1
          /\ \A o \in DOMAIN documents \ {d} : documents[o] = avant.documents[o]
          /\ Len(emprunts) = n + 1
          /\ SubSeq(emprunts, 1, n) = avant.emprunts
          /\ emprunts[n + 1].document_id = d
          /\ emprunts[n + 1].utilisateur_id = u
          /\ emprunts[n + 1].statut = "emprunté"
          /\ emprunts[n + 1].date_retour_reel = null
          /\ utilisateurs =
               [ avant.utilisateurs EXCEPT ![u].emprunts_actuels = @ + 1 ]

\* A Borrow that ran alone has answered success.
C9_Witness ==
  \E r \in Reqs :
    /\ req[r].pc = "done" /\ req[r].route = "emprunter" /\ req[r].success
    /\ avant.documents[req[r].id].FIELD9 = "disponible"

\* C10: a Return that ran alone and answered success has made d available
\* with emprunte_par and date_emprunt cleared, closed the one Active loan of
\* (d, u), lowered emprunts_actuels by one and left reservations as it was.
C10_EffetsRetour ==
  \A r \in Reqs :
    (req[r].pc = "done" /\ req[r].route = "retourner" /\ req[r].success) =>
      LET u == req[r].userId
          d == req[r].id
      IN  /\ u \in DOMAIN avant.utilisateurs /\ d \in DOMAIN avant.documents
          /\ documents[d].FIELD9 = "disponible"
          /\ documents[d].emprunte_par = null
          /\ documents[d].date_emprunt = null
          /\ documents[d].reservations = avant.documents[d].reservations
          /\ AvantActifs(d, u) = {req[r].emprunt}
          /\ emprunts[req[r].emprunt].statut = "retourné"
          /\ utilisateurs[u].emprunts_actuels = avant.utilisateurs[u].emprunts_actuels - 1

\* A Return of a loan created by an earlier Borrow has answered success.
C10_Witness ==
  \E r \in Reqs :
    /\ req[r].pc = "done" /\ req[r].route = "retourner" /\ req[r].success
    /\ avant.documents[req[r].id].FIELD9 = "emprunté"
    /\ avant.documents[req[r].id].reservations >= 1

\* ------------------------------------------------------- store failures
\* The same catch block answering success.
CatchSucces(r) ==
  [ Ok(r) EXCEPT ![r].panne = req[r].pc ]

\* catch (error) { res.status(500).json({ success: false, error: error.message }) }
\* panne records the call that was rejected.
Catch(r) ==
  [ Fail(r, 500, "error.message", null) EXCEPT ![r].panne = req[r].pc ]

\* The store call a Borrow or Return request awaits is rejected (timeout,
\* connection loss) without having been applied; the handler's catch block
\* answers.
StoreError(r) ==
  /\ req[r].route \in {"emprunter", "retourner"}
  /\ req[r].pc \in {"findUser", "findDocument", "findEmprunt", "updateDocument",
                    "insertEmprunt", "updateEmprunt", "incUser"}
  /\ pannes < MaxPannes
  /\ pannes' = pannes + 1
  /\ req' = Catch(r)
  /\ UNCHANGED <<conn, documents, utilisateurs, emprunts, now, avant>>

\* Requests served one after the other, whose store calls may fail.
NextPanne ==
  \/ \E r \in Reqs : StartAlone(r)
  \/ \E r \in Reqs : Step(r)
  \/ \E r \in Reqs : StoreError(r)

SpecPanne == Init /\ [][NextPanne]_vars

\* C11: a Borrow or Return request one of whose store calls failed has
\* answered, and its answer is a failure (status 500, success false),
\* whichever call failed.
C11_PanneJamaisSucces ==
  \A r \in Reqs :
    req[r].panne # "none" =>
      /\ req[r].pc = "done"
      /\ ~req[r].success
      /\ req[r].status = 500

\* A Borrow whose third write failed after the first two were applied has
\* been answered, after a Return whose second write had failed.
C11_Witness ==
  /\ pannes = 2
  /\ \E r \in Reqs : /\ req[r].route = "emprunter" /\ req[r].panne = "incUser"
                     /\ documents[req[r].id].FIELD9 = "emprunté"
                     /\ Cardinality(Actifs(req[r].id)) = 2

\* ------------------------------------------------------- GET /api/stats
\* countDocuments({ FIELD9: label })
CountFIELD9(label) ==
  Cardinality({ d \in DOMAIN documents : documents[d].FIELD9 = label })

\* $group: { _id: null, totalReservations: { $sum: "$reservations" } } over
\* the documents of S.
RECURSIVE SumReservations(_)
SumReservations(S) ==
  IF S = {} THEN 0
  ELSE LET d == CHOOSE x \in S : TRUE
       IN  documents[d].reservations + SumReservations(S \ {d})

\* A Stats request arrives.
StartStats(r) ==
  /\ req[r].pc = "idle"
  /\ req' = [ req EXCEPT ![r] = [ Idle EXCEPT !.pc = "countTotal", !.route = "stats" ] ]
  /\ UNCHANGED <<hors, documents, utilisateurs, emprunts, now, avant>>

\* const total = await countDocuments()
StatsTotal(r) ==
  /\ req[r].route = "stats" /\ req[r].pc = "countTotal"
  /\ req' = [ req EXCEPT ![r].pc = "countDisponibles",
                         ![r].total = Cardinality(DOMAIN documents) ]
  /\ UNCHANGED <<hors, documents, utilisateurs, emprunts, now, avant>>

\* const disponibles = await countDocuments({ FIELD9: "disponible" })
StatsDisponibles(r) ==
  /\ req[r].route = "stats" /\ req[r].pc = "countDisponibles"
  /\ req' = [ req EXCEPT ![r].pc = "countEmpruntes",
                         ![r].disponibles = CountFIELD9("disponible") ]
  /\ UNCHANGED <<hors, documents, utilisateurs, emprunts, now, avant>>

\* const empruntes = await countDocuments({ FIELD9: "emprunté" })
StatsEmpruntes(r) ==
  /\ req[r].route = "stats" /\ req[r].pc = "countEmpruntes"
  /\ req' = [ req EXCEPT ![r].pc = "aggregate",
                         ![r].empruntes = CountFIELD9("emprunté") ]
  /\ UNCHANGED <<hors, documents, utilisateurs, emprunts, now, avant>>

\* aggregate([...]).toArray(), totalReservations, then res.json.
StatsAggregate(r) ==
  /\ req[r].route = "stats" /\ req[r].pc = "aggregate"
  /\ req' = [ Ok(r) EXCEPT ![r].totalReservations =
                IF DOMAIN documents = {} THEN 0 ELSE SumReservations(DOMAIN documents) ]
  /\ UNCHANGED <<hors, documents, utilisateurs, emprunts, now, avant>>

StatsStep(r) ==
  \/ StatsTotal(r)
  \/ StatsDisponibles(r)
  \/ StatsEmpruntes(r)
  \/ StatsAggregate(r)

\* Stats requests interleaved with Borrow and Return requests.
NextStats ==
  \/ \E r \in Reqs : Start(r)
  \/ \E r \in Reqs : Step(r)
  \/ \E r \in Reqs : StartStats(r)
  \/ \E r \in Reqs : StatsStep(r)

SpecStats == Init /\ [][NextStats]_vars

\* C12: the values of one Stats response describe one state of the
\* collection; every document being "disponible" or "emprunté", the response
\* has disponibles + empruntes = total.
C12_StatsCoherentes ==
  \A r \in Reqs :
    (req[r].route = "stats" /\ req[r].pc = "done") =>
      req[r].disponibles + req[r].empruntes = req[r].total

\* ------------------------------------------- two requests, served once
\* Each slot serves one request: no slot is freed.
NextDeux ==
  \/ \E r \in Reqs : Start(r)
  \/ \E r \in Reqs : BorFindUser(r)
  \/ \E r \in Reqs : BorFindDocument(r)
  \/ \E r \in Reqs : BorUpdateDocument(r)
  \/ \E r \in Reqs : BorInsertEmprunt(r)
  \/ \E r \in Reqs : BorIncUser(r)
  \/ \E r \in Reqs : RetFindEmprunt(r)
  \/ \E r \in Reqs : RetUpdateDocument(r)
  \/ \E r \in Reqs : RetUpdateEmprunt(r)
  \/ \E r \in Reqs : RetIncUser(r)

SpecDeux == (Init \/ InitEnCours) /\ [][NextDeux]_vars

\* The response of a request.
Reponse(status, success, error, limite) ==
  [ status |-> status, success |-> success, error |-> error, limite |-> limite ]

\* POST /api/documents/:id/emprunter run from its first await to its response
\* on the collections s with no other request in between: the collections it
\* leaves and its response.
SeulEmprunter(s, d, u) ==
  IF u \notin DOMAIN s.utilisateurs
    THEN [ db |-> s, rep |-> Reponse(404, FALSE, "Utilisateur non trouvé", null) ]
  ELSE IF s.utilisateurs[u].emprunts_actuels >= s.utilisateurs[u].limite_emprunts
    THEN [ db |-> s, rep |-> Reponse(400, FALSE, "Limite d'emprunts atteinte",
                                     s.utilisateurs[u].limite_emprunts) ]
  ELSE IF d \notin DOMAIN s.documents \/ s.documents[d].FIELD9 # "disponible"
    THEN [ db |-> s, rep |-> Reponse(400, FALSE, "Document non disponible", null) ]
  ELSE [ db |->
           [ documents |->
               [ s.documents EXCEPT ![d] =
                   [ @ EXCEPT !.FIELD9 = "emprunté", !.disponible = FALSE,
                              !.emprunte_par = s.utilisateurs[u].email,
                              !.date_emprunt = now, !.reservations = @ + 1 ] ],
             emprunts |->
               Append(s.emprunts,
                      NewEmprunt(d, u, s.utilisateurs[u].email, now, now + LoanDays)),
             utilisateurs |->
               [ s.utilisateurs EXCEPT ![u].emprunts_actuels = @ + 1 ] ],
         rep |-> Reponse(200, TRUE, "none", null) ]

\* POST /api/documents/:id/retourner run alone on the collections s.
SeulRetourner(s, d, u) ==
  LET found == { i \in DOMAIN s.emprunts : /\ s.emprunts[i].document_id = d
                                           /\ s.emprunts[i].utilisateur_id = u
                                           /\ s.emprunts[i].statut = "emprunté" }
  IN  IF found = {}
        THEN [ db |-> s,
               rep |-> Reponse(400, FALSE, "Vous n'avez pas emprunté ce document", null) ]
        ELSE LET i == CHOOSE x \in found : \A y \in found : x <= y IN
             [ db |->
                 [ documents |->
                     IF d \in DOMAIN s.documents
                       THEN [ s.documents EXCEPT ![d] =
                                [ @ EXCEPT !.FIELD9 = "disponible", !.disponible = TRUE,
                                           !.emprunte_par = null, !.date_emprunt = null ] ]
                       ELSE s.documents,
                   emprunts |->
                     [ s.emprunts EXCEPT ![i].date_retour_reel = now,
                                         ![i].statut = "retourné" ],
                   utilisateurs |->
                     [ s.utilisateurs EXCEPT ![u].emprunts_actuels = @ - 1 ] ],
               rep |-> Reponse(200, TRUE, "none", null) ]

\* Request r run alone on the collections s.
Seul(s, r) ==
  IF req[r].route = "emprunter"
    THEN SeulEmprunter(s, req[r].id, req[r].userId)
    ELSE SeulRetourner(s, req[r].id, req[r].userId)

\* The responses and the collections are those of request a run alone on the
\* initial collections, then request b run alone.
Serie(a, b) ==
  LET x == Seul(avant, a)
      y == Seul(x.db, b)
  IN  /\ Snapshot = y.db
      /\ Reponse(req[a].status, req[a].success, req[a].error, req[a].limite) = x.rep
      /\ Reponse(req[b].status, req[b].success, req[b].error, req[b].limite) = y.rep

\* C13: two Borrow or Return requests that name different documents leave,
\* whatever their interleaving, the responses and the records of one of the
\* two orders in which they can be served one after the other.
C13_Serialisable ==
  \A a, b \in Reqs :
    ( /\ a # b /\ req[a].pc = "done" /\ req[b].pc = "done"
      /\ req[a].id # req[b].id ) =>
        Serie(a, b) \/ Serie(b, a)

\* ----------------------------- POST /:id/toggle (src/routes/documents.js)
\* The same computation answering "emprunté" whatever the label.
NewValueToujours(label) == "emprunté"

\* const newValue = doc.FIELD9 === "emprunté" ? "disponible" : "emprunté"
NewValue(label) == IF label = "emprunté" THEN "disponible" ELSE "emprunté"

\* Identifier given by insertOne to the document the administrator adds.
Nouveaux == {"d5"}

\* Documents a Toggle request may name.
ToggleIds == DocIds \cup Nouveaux

\* The slot of a Toggle request just received.
ToggleRecu(d, suite) ==
  [ Idle EXCEPT !.pc = "toggleFind", !.route = "toggle", !.id = d, !.suite = suite ]

RecevoirToggle(r, d) ==
  /\ req[r].pc = "idle"
  /\ req' = [ req EXCEPT ![r] = ToggleRecu(d, FALSE) ]

\* A Toggle request arrives while others may be running.
StartToggle(r) ==
  /\ \E d \in ToggleIds : RecevoirToggle(r, d)
  /\ UNCHANGED <<hors, documents, utilisateurs, emprunts, now, avant>>

\* A Toggle request arrives while no other request is running.
StartToggleAlone(r) ==
  /\ \A o \in Reqs : req[o].pc = "idle"
  /\ \E d \in ToggleIds : RecevoirToggle(r, d)
  /\ avant' = Snapshot
  /\ UNCHANGED <<hors, documents, utilisateurs, emprunts, now>>

\* The response of a first Toggle that ran alone is delivered and a second
\* Toggle of the same document arrives.
StartToggleSuite(r) ==
  /\ req[r].pc = "idle"
  /\ \E o \in Reqs \ {r} :
       /\ req[o].pc = "done" /\ req[o].route = "toggle"
       /\ req[o].status = 200 /\ ~req[o].suite
       /\ req' = [ req EXCEPT ![o] = Idle, ![r] = ToggleRecu(req[o].id, TRUE) ]
  /\ UNCHANGED <<hors, documents, utilisateurs, emprunts, now, avant>>

\* findOne({ _id }); if (!doc) return res.status(404).send(...); newValue.
ToggleFind(r) ==
  /\ req[r].route = "toggle" /\ req[r].pc = "toggleFind"
  /\ LET d == req[r].id IN
       IF d \notin DOMAIN documents
         THEN req' = [ req EXCEPT ![r].pc = "done", ![r].status = 404,
                                  ![r].error = "Document non trouvé" ]
         ELSE req' = [ req EXCEPT ![r].pc = "toggleUpdate",
                                  ![r].newValue = NewValue(documents[d].FIELD9) ]
  /\ UNCHANGED <<hors, documents, utilisateurs, emprunts, now, avant>>

\* The same step raising reservations as a Borrow does.
ToggleUpdateInc(r) ==
  /\ req[r].route = "toggle" /\ req[r].pc = "toggleUpdate"
  /\ documents' = UpdateDocument(req[r].id, [ FIELD9 |-> req[r].newValue ], 1)
  /\ req' = [ req EXCEPT ![r].pc = "done", ![r].status = 200 ]
  /\ UNCHANGED <<hors, utilisateurs, emprunts, now, avant>>

\* updateOne({ _id: doc._id }, { $set: { FIELD9: newValue } }); res.json.
ToggleUpdate(r) ==
  /\ req[r].route = "toggle" /\ req[r].pc = "toggleUpdate"
  /\ documents' = UpdateDocument(req[r].id, [ FIELD9 |-> req[r].newValue ], 0)
  /\ req' = [ req EXCEPT ![r].pc = "done", ![r].status = 200 ]
  /\ UNCHANGED <<hors, utilisateurs, emprunts, now, avant>>

ToggleStep(r) ==
  \/ ToggleFind(r)
  \/ ToggleUpdate(r)

\* Borrow, Return and Toggle requests served one after the other.
NextBascule ==
  \/ \E r \in Reqs : StartAlone(r)
  \/ \E r \in Reqs : StartToggleAlone(r)
  \/ \E r \in Reqs : StartToggleSuite(r)
  \/ \E r \in Reqs : Step(r)
  \/ \E r \in Reqs : ToggleStep(r)

SpecBascule == Init /\ [][NextBascule]_vars

\* C14: a Toggle of an existing document changes that document's FIELD9 and
\* nothing else ("emprunté" becomes "disponible", any other label "emprunté"):
\* no loan record, no user record, no other document, no other field; a
\* second Toggle right after the first leaves every record as it was before
\* the first; a Toggle of a missing document answers 404 and changes nothing.
C14_ToggleSeulementFIELD9 ==
  \A r \in Reqs :
    req[r].route = "toggle" =>
      LET d == req[r].id IN
        /\ emprunts = avant.emprunts
        /\ utilisateurs = avant.utilisateurs
        /\ DOMAIN documents = DOMAIN avant.documents
        /\ \A o \in DOMAIN documents \ {d} : documents[o] = avant.documents[o]
        /\ req[r].pc # "done" /\ ~req[r].suite => documents = avant.documents
        /\ req[r].pc = "done" =>
             IF d \notin DOMAIN avant.documents
               THEN /\ req[r].status = 404
                    /\ req[r].error = "Document non trouvé"
                    /\ documents = avant.documents
             ELSE IF req[r].suite
               THEN /\ req[r].status = 200
                    /\ documents = avant.documents
                    /\ req[r].newValue = avant.documents[d].FIELD9
             ELSE /\ req[r].status = 200
                  /\ documents[d] =
                       [ avant.documents[d] EXCEPT
                           !.FIELD9 = IF @ = "emprunté" THEN "disponible" ELSE "emprunté" ]
                  /\ req[r].newValue = documents[d].FIELD9

\* A second Toggle has brought back to "emprunté" a document on loan, whose
\* loan record and borrower's counter are those of the Borrow.
C14_Witness ==
  \E r \in Reqs :
    /\ req[r].route = "toggle" /\ req[r].pc = "done" /\ req[r].suite
    /\ req[r].newValue = "emprunté"
    /\ Cardinality(Actifs(req[r].id)) = 1
    /\ documents[req[r].id].disponible = FALSE
    /\ \E u \in DOMAIN utilisateurs : utilisateurs[u].emprunts_actuels = 1

\* ------------------------------------------- reservations over the requests
\* The reservations of a document do not depend on who borrows it: the Borrow
\* and Return requests are those of the test account and of a session whose
\* user id matches no record.
Emprunteurs == {"user", NoUser}

StartCompteur(r) ==
  /\ \E route \in {"emprunter", "retourner"}, d \in DocIds, u \in Emprunteurs :
       Receive(r, route, d, u)
  /\ UNCHANGED <<hors, documents, utilisateurs, emprunts, now, avant>>

\* Borrow, Return and Toggle requests interleaved at every await.
NextCompteur ==
  \/ \E r \in Reqs : StartCompteur(r)
  \/ \E r \in Reqs : StartToggle(r)
  \/ \E r \in Reqs : Step(r)
  \/ \E r \in Reqs : ToggleStep(r)

SpecCompteur == Init /\ [][NextCompteur]_vars

\* Loan records ever created for document d.
EmpruntsDe(d) == { i \in DOMAIN emprunts : emprunts[i].document_id = d }

\* Borrow requests that have raised reservations of d and not yet inserted
\* their loan record.
EntreDeux(d) ==
  { r \in Reqs : /\ req[r].route = "emprunter" /\ req[r].id = d
                 /\ req[r].pc = "insertEmprunt" }

\* C15: no step lowers the reservations of a document, and the increase of a
\* document's reservations is the number of loan records created for it, the
\* records that Borrow requests are about to insert included.
C15_ReservationsMonotone ==
  [][ \A d \in DOMAIN documents :
        /\ documents'[d].reservations >= documents[d].reservations
        /\ documents'[d].reservations - avant.documents[d].reservations
             = Cardinality({ i \in DOMAIN emprunts' : emprunts'[i].document_id = d })
               + Cardinality({ r \in Reqs : /\ req'[r].route = "emprunter"
                                            /\ req'[r].id = d
                                            /\ req'[r].pc = "insertEmprunt" }) ]_vars

\* The same document has been borrowed, toggled and borrowed again while its
\* first loan is Active, then returned: reservations 2, two loan records.
C15_Witness ==
  \E d \in Cibles :
    /\ documents[d].reservations = 2
    /\ Cardinality(EmpruntsDe(d)) = 2
    /\ \E i \in EmpruntsDe(d) : emprunts[i].statut = "retourné"
    /\ \A r \in Reqs : req[r].pc \in {"idle", "done"}

\* ------------------------------------------- GET /api/admin/dashboard
\* The same count without its statut filter.
CountRetardSansStatut(s, asOf) ==
  Cardinality({ i \in DOMAIN s : s[i].date_retour_prevu < asOf })

\* countDocuments({ statut: 'emprunté', date_retour_prevu: { $lt: asOf } }):
\* the records of the collection are examined one by one.
RECURSIVE CountRetard(_, _)
CountRetard(s, asOf) ==
  IF s = << >> THEN 0
  ELSE (IF Head(s).statut = "emprunté" /\ Head(s).date_retour_prevu < asOf THEN 1 ELSE 0)
       + CountRetard(Tail(s), asOf)

\* A dashboard request of the administrator arrives while no other request
\* is running.
StartDashboardAlone(r) ==
  /\ \A o \in Reqs : req[o].pc = "idle"
  /\ req' = [ req EXCEPT ![r] =
                [ Idle EXCEPT !.pc = "countDocuments", !.route = "dashboard" ] ]
  /\ avant' = Snapshot
  /\ UNCHANGED <<hors, documents, utilisateurs, emprunts, now>>

\* const totalDocuments = await countDocuments()
DashTotalDocuments(r) ==
  /\ req[r].route = "dashboard" /\ req[r].pc = "countDocuments"
  /\ req' = [ req EXCEPT ![r].pc = "countDisponibles",
                         ![r].totalDocuments = Cardinality(DOMAIN documents) ]
  /\ UNCHANGED <<hors, documents, utilisateurs, emprunts, now, avant>>

\* const documentsDisponibles = await countDocuments({ FIELD9: "disponible" })
DashDisponibles(r) ==
  /\ req[r].route = "dashboard" /\ req[r].pc = "countDisponibles"
  /\ req' = [ req EXCEPT ![r].pc = "countUtilisateurs",
                         ![r].documentsDisponibles = CountFIELD9("disponible") ]
  /\ UNCHANGED <<hors, documents, utilisateurs, emprunts, now, avant>>

\* const totalUtilisateurs = await countDocuments()
DashUtilisateurs(r) ==
  /\ req[r].route = "dashboard" /\ req[r].pc = "countUtilisateurs"
  /\ req' = [ req EXCEPT ![r].pc = "countEnCours",
                         ![r].totalUtilisateurs = Cardinality(DOMAIN utilisateurs) ]
  /\ UNCHANGED <<hors, documents, utilisateurs, emprunts, now, avant>>

\* const empruntsEnCours = await countDocuments({ statut: 'emprunté' });
\* const aujourdhui = new Date()
DashEnCours(r) ==
  /\ req[r].route = "dashboard" /\ req[r].pc = "countEnCours"
  /\ req' = [ req EXCEPT ![r].pc = "countRetard",
                         ![r].empruntsEnCours =
                            Cardinality({ i \in DOMAIN emprunts :
                                            emprunts[i].statut = "emprunté" }),
                         ![r].aujourdhui = now ]
  /\ UNCHANGED <<hors, documents, utilisateurs, emprunts, now, avant>>

\* const empruntsRetard = await countDocuments({...}); res.json
DashRetard(r) ==
  /\ req[r].route = "dashboard" /\ req[r].pc = "countRetard"
  /\ req' = [ Ok(r) EXCEPT ![r].empruntsRetard = CountRetard(emprunts, req[r].aujourdhui) ]
  /\ UNCHANGED <<hors, documents, utilisateurs, emprunts, now, avant>>

DashStep(r) ==
  \/ DashTotalDocuments(r)
  \/ DashDisponibles(r)
  \/ DashUtilisateurs(r)
  \/ DashEnCours(r)
  \/ DashRetard(r)

\* The loan period elapses.
Mois ==
  /\ now <= MaxTime
  /\ now' = now + LoanDays
  /\ UNCHANGED <<hors, documents, utilisateurs, emprunts, req, avant>>

\* Requests served one after the other need one slot.
Guichet == {"r1"}

\* Borrow, Return and dashboard requests served one after the other while
\* the clock advances by instants and by a loan period, on a ledger where the
\* test account holds two loans.
NextRetard ==
  \/ \E r \in Guichet : StartAlone(r)
  \/ \E r \in Guichet : StartDashboardAlone(r)
  \/ \E r \in Guichet : Step(r)
  \/ \E r \in Guichet : DashStep(r)
  \/ Tick
  \/ Mois

SpecRetard == InitEnCours /\ [][NextRetard]_vars

\* Loans of the collection as received that are Active and due before asOf.
EnRetard(asOf) ==
  { i \in DOMAIN avant.emprunts : /\ avant.emprunts[i].statut = "emprunté"
                                  /\ avant.emprunts[i].date_retour_prevu < asOf }

\* C16: the overdue count of a dashboard response is the number of loans with
\* statut 'emprunté' and date_retour_prevu < aujourdhui, the instant read just
\* before the count: a 'retourné' loan is not counted whatever its due date,
\* an Active loan due at aujourdhui or later is not counted, and the request
\* changes no record.
C16_RetardExact ==
  \A r \in Reqs :
    req[r].route = "dashboard" =>
      /\ Snapshot = avant
      /\ req[r].pc = "done" =>
           /\ req[r].empruntsRetard = Cardinality(EnRetard(req[r].aujourdhui))
           /\ req[r].empruntsRetard <= req[r].empruntsEnCours

\* A dashboard has answered 2 while the collection holds two Active loans due
\* before aujourdhui, a returned loan due before aujourdhui and an Active
\* loan due at aujourdhui.
C16_Witness ==
  \E r \in Reqs :
    /\ req[r].route = "dashboard" /\ req[r].pc = "done"
    /\ req[r].empruntsRetard = 2
    /\ \E i \in DOMAIN emprunts : /\ emprunts[i].statut = "retourné"
                                  /\ emprunts[i].date_retour_prevu < req[r].aujourdhui
    /\ \E i \in DOMAIN emprunts : /\ emprunts[i].statut = "emprunté"
                                  /\ emprunts[i].date_retour_prevu = req[r].aujourdhui

\* ------------------------------------------- POST /api/admin/documents
\* A request of the administrator to add a document arrives while no other
\* request is running, while the store has an identifier left to give; titre
\* and auteur are present or not.
StartAjouterAlone(r) ==
  /\ \A o \in Reqs : req[o].pc = "idle"
  /\ Nouveaux \ DOMAIN documents # {}
  /\ \E titre \in BOOLEAN, auteur \in BOOLEAN :
       req' = [ req EXCEPT ![r] =
                  [ Idle EXCEPT !.pc = "valider", !.route = "ajouter",
                                !.titre = titre, !.auteur = auteur ] ]
  /\ avant' = Snapshot
  /\ UNCHANGED <<hors, documents, utilisateurs, emprunts, now>>

\* if (!titre || !auteur) return res.status(400).json(...); const document = {...}
AjouterValider(r) ==
  /\ req[r].route = "ajouter" /\ req[r].pc = "valider"
  /\ IF ~req[r].titre \/ ~req[r].auteur
       THEN req' = Fail(r, 400, "Titre et auteur requis", null)
       ELSE req' = [ req EXCEPT ![r].pc = "insertDocument" ]
  /\ UNCHANGED <<hors, documents, utilisateurs, emprunts, now, avant>>

\* insertOne(document), res.json; the identifiers the store can give are
\* those of Nouveaux.
AjouterInsert(r) ==
  /\ req[r].route = "ajouter" /\ req[r].pc = "insertDocument"
  /\ \E id \in Nouveaux \ DOMAIN documents :
       /\ documents' = documents @@ (id :> NewDocument)
       /\ req' = [ Ok(r) EXCEPT ![r].id = id ]
  /\ UNCHANGED <<hors, utilisateurs, emprunts, now, avant>>

AjouterStep(r) ==
  \/ AjouterValider(r)
  \/ AjouterInsert(r)

\* Document creation, Borrow, Return and Toggle requests served one after
\* the other on documents that were all created by the administrator.
NextCreation ==
  \/ \E r \in Guichet : StartAlone(r)
  \/ \E r \in Guichet : StartToggleAlone(r)
  \/ \E r \in Guichet : StartAjouterAlone(r)
  \/ \E r \in Guichet : Step(r)
  \/ \E r \in Guichet : ToggleStep(r)
  \/ \E r \in Guichet : AjouterStep(r)

SpecCreation == Init /\ [][NextCreation]_vars

\* C17: the two availability representations of every document agree:
\* FIELD9 is "disponible" iff the boolean disponible is true.
C17_RepresentationsAccordees ==
  \A d \in DOMAIN documents :
    (documents[d].FIELD9 = "disponible") <=> (documents[d].disponible = TRUE)

\* ------------------------------------------- POST /api/auth/register
\* Identifiers given by insertOne to the accounts created, in order.
NouveauxUsers == << "n1", "n2", "n3", "n4" >>

\* Accounts created by register requests.
Inscrits == DOMAIN utilisateurs \ Users

\* email of the request body: missing, the test account's, a new one.
Emails == {"", "user@test.fr", "a@x.fr"}

\* password.length of the request body.
Passwords == {0, 2, 3}

\* Register requests that may still insert an account.
RegisterPending ==
  { r \in Reqs : req[r].route = "register" /\ req[r].pc \in {"valider", "findEmail", "insertUser"} }

\* A register request arrives while others may be running.
StartRegister(r) ==
  /\ req[r].pc = "idle"
  /\ Cardinality(Inscrits) + Cardinality(RegisterPending) < MaxInscrits
  /\ \E nom \in BOOLEAN, email \in Emails, password \in Passwords :
       req' = [ req EXCEPT ![r] =
                  [ Idle EXCEPT !.pc = "valider", !.route = "register",
                                !.nom = nom, !.email = email, !.password = password ] ]
  /\ UNCHANGED <<hors, documents, utilisateurs, emprunts, now, avant>>

\* The two checks on the request body.
RegValider(r) ==
  /\ req[r].route = "register" /\ req[r].pc = "valider"
  /\ IF ~req[r].nom \/ req[r].email = "" \/ req[r].password = 0
       THEN req' = Fail(r, 400, "Tous les champs sont requis", null)
     ELSE IF req[r].password < MinPassword
       THEN req' = Fail(r, 400, "Mot de passe trop court", null)
     ELSE req' = [ req EXCEPT ![r].pc = "findEmail" ]
  /\ UNCHANGED <<hors, documents, utilisateurs, emprunts, now, avant>>

\* const userExists = await findOne({ email }); if (userExists) return 400
RegFindEmail(r) ==
  /\ req[r].route = "register" /\ req[r].pc = "findEmail"
  /\ IF \E u \in DOMAIN utilisateurs : utilisateurs[u].email = req[r].email
       THEN req' = Fail(r, 400, "Email déjà utilisé", null)
       ELSE req' = [ req EXCEPT ![r].pc = "insertUser" ]
  /\ UNCHANGED <<hors, documents, utilisateurs, emprunts, now, avant>>

\* insertOne({ nom, email, ..., limite_emprunts: 3, emprunts_actuels: 0 }); res.json
RegInsert(r) ==
  /\ req[r].route = "register" /\ req[r].pc = "insertUser"
  /\ LET id == NouveauxUsers[Cardinality(Inscrits) + 1] IN
       /\ utilisateurs' = utilisateurs @@
            (id :> [ email |-> req[r].email, role |-> "user",
                     limite_emprunts |-> LimiteUser, emprunts_actuels |-> 0 ])
       /\ req' = [ Ok(r) EXCEPT ![r].userId = id ]
  /\ UNCHANGED <<hors, documents, emprunts, now, avant>>

\* Register requests interleaved at every await.
NextRegister ==
  \/ \E r \in Reqs : StartRegister(r)
  \/ \E r \in Reqs : RegValider(r)
  \/ \E r \in Reqs : RegFindEmail(r)
  \/ \E r \in Reqs : RegInsert(r)
  \/ \E r \in Reqs : Finish(r)

SpecRegister == Init /\ [][NextRegister]_vars

\* C18: no two records of utilisateurs have the same email, and of the
\* register requests carrying one email at most one answers success.
C18_EmailUnique ==
  /\ \A u, v \in DOMAIN utilisateurs :
       u # v => utilisateurs[u].email # utilisateurs[v].email
  /\ \A a, b \in Reqs :
       ( /\ a # b /\ req[a].route = "register" /\ req[b].route = "register"
         /\ req[a].pc = "done" /\ req[b].pc = "done"
         /\ req[a].email = req[b].email ) =>
           ~(req[a].success /\ req[b].success)

\* ------------------------------------------------------------- src/db.js
\* What the functions of db.js never write.
registre == <<documents, utilisateurs, emprunts, now, req, avant, pannes>>

\* The call in progress returns v to its caller.
Retour(c, v) == [ c EXCEPT !.op = "none", !.pc = "idle", !.ret = v ]

\* connectDB() is called.  With no client: new MongoClient(uri, options), then
\* await client.connect().  With a client: db = client.db("bibliothequedb"),
\* then ensureCollectionExists() up to its await of listCollections.
AppelConnectDB ==
  /\ conn.op = "none"
  /\ conn' = IF conn.client = "null"
               THEN [ conn EXCEPT !.op = "connectDB", !.ret = "none",
                                  !.client = "MongoClient", !.pc = "connect" ]
               ELSE [ conn EXCEPT !.op = "connectDB", !.ret = "none",
                                  !.db = "bibliothequedb", !.pc = "listCollections" ]
  /\ UNCHANGED registre

\* await client.connect() resolves; the ping command is sent.
ConnConnect ==
  /\ conn.op = "connectDB" /\ conn.pc = "connect"
  /\ conn' = [ conn EXCEPT !.pc = "ping" ]
  /\ UNCHANGED registre

\* await client.db("admin").command({ ping: 1 }) resolves; db is assigned and
\* ensureCollectionExists() runs up to its await of listCollections.
ConnPing ==
  /\ conn.op = "connectDB" /\ conn.pc = "ping"
  /\ conn' = [ conn EXCEPT !.ping = TRUE, !.db = "bibliothequedb",
                           !.pc = "listCollections" ]
  /\ UNCHANGED registre

\* connect or ping rejects: catch (err) { ...; return null }
ConnEchec ==
  /\ conn.op = "connectDB" /\ conn.pc \in {"connect", "ping"}
  /\ conn' = Retour(conn, "null")
  /\ UNCHANGED registre

\* The rest of ensureCollectionExists once "documents" is dealt with:
\* createCollection("users") if the listing had no "users", else connectDB
\* returns db.
SuiteUsers(c) ==
  IF "users" \notin c.noms THEN [ c EXCEPT !.pc = "createUsers" ]
  ELSE Retour(c, "db")

\* const collections = await db.listCollections().toArray()
EnsureList ==
  /\ conn.op = "connectDB" /\ conn.pc = "listCollections"
  /\ conn' = [ conn EXCEPT !.noms = conn.collections,
                           !.pc = IF "documents" \notin conn.collections
                                    THEN "createDocuments" ELSE "countDocuments" ]
  /\ UNCHANGED registre

\* await db.createCollection("documents")
EnsureCreateDocuments ==
  /\ conn.op = "connectDB" /\ conn.pc = "createDocuments"
  /\ conn' = [ conn EXCEPT !.collections = @ \cup {"documents"}, !.pc = "insertSample" ]
  /\ UNCHANGED registre

\* insertSampleData(): await insertMany(sampleDocuments)
EnsureInsertSample ==
  /\ conn.op = "connectDB" /\ conn.pc = "insertSample"
  /\ conn' = SuiteUsers([ conn EXCEPT !.echantillons = TRUE ])
  /\ UNCHANGED registre

\* insertMany rejects: insertSampleData catches and returns.
EnsureInsertSampleEchec ==
  /\ conn.op = "connectDB" /\ conn.pc = "insertSample"
  /\ conn' = SuiteUsers(conn)
  /\ UNCHANGED registre

\* const count = await db.collection("documents").countDocuments()
EnsureCount ==
  /\ conn.op = "connectDB" /\ conn.pc = "countDocuments"
  /\ conn' = SuiteUsers(conn)
  /\ UNCHANGED registre

\* await db.createCollection("users"); ensureCollectionExists returns and
\* connectDB returns db.
EnsureCreateUsers ==
  /\ conn.op = "connectDB" /\ conn.pc = "createUsers"
  /\ conn' = Retour([ conn EXCEPT !.collections = @ \cup {"users"} ], "db")
  /\ UNCHANGED registre

\* A call of ensureCollectionExists rejects: its catch logs the error, it
\* returns, and connectDB returns db.
EnsureEchec ==
  /\ conn.op = "connectDB"
  /\ conn.pc \in {"listCollections", "createDocuments", "countDocuments", "createUsers"}
  /\ conn' = Retour(conn, "db")
  /\ UNCHANGED registre

\* getDB(): throws if (!db), else returns db.
AppelGetDB ==
  /\ conn.op = "none"
  /\ conn' = [ conn EXCEPT !.ret = IF conn.db = "null" THEN "throws" ELSE "db" ]
  /\ UNCHANGED registre

\* closeDB() is called: with a client it awaits client.close(), else it
\* returns.
AppelCloseDB ==
  /\ conn.op = "none"
  /\ conn' = IF conn.client = "null"
               THEN [ conn EXCEPT !.ret = "undefined" ]
               ELSE [ conn EXCEPT !.op = "closeDB", !.ret = "none", !.pc = "close" ]
  /\ UNCHANGED registre

\* await client.close() resolves; client = null; db = null.
CloseClient ==
  /\ conn.op = "closeDB" /\ conn.pc = "close"
  /\ conn' = Retour([ conn EXCEPT !.client = "null", !.db = "null", !.ping = FALSE ],
                    "undefined")
  /\ UNCHANGED registre

\* Calls of connectDB, getDB and closeDB one after the other; a connection
\* attempt and the calls of ensureCollectionExists may be rejected.
NextConn ==
  \/ AppelConnectDB
  \/ ConnConnect
  \/ ConnPing
  \/ ConnEchec
  \/ EnsureList
  \/ EnsureCreateDocuments
  \/ EnsureInsertSample
  \/ EnsureInsertSampleEchec
  \/ EnsureCount
  \/ EnsureCreateUsers
  \/ EnsureEchec
  \/ AppelGetDB
  \/ AppelCloseDB
  \/ CloseClient

SpecConn == Init /\ [][NextConn]_vars

\* C19: connectDB returns a database handle, and getDB returns one instead
\* of throwing, only if connect and ping have succeeded since the client was
\* last closed.
C19_HandleConnecte ==
  conn.ret = "db" => conn.ping

====
